---- MODULE Spec2Model ----
(***************************************************************************)
(* Request states of signal-tools: the RequestState variants (static,      *)
(* error, empty, loading, writable and the two AsyncRequestState classes), *)
(* the then/catch/finally combinators of IValueRequestState, and the       *)
(* RequestTracker.  Every method is a state transformer on the record of   *)
(* one RequestState object; callbacks are user code and are drawn from a   *)
(* small set of scripts that may call back into the same object.           *)
(***************************************************************************)
EXTENDS Integers, Sequences, FiniteSets, TLC

VARIABLES heap, trk, made

vars == <<heap, trk, made>>

(* ------------------------------ bounds -------------------------------- *)

\* how many distinct values a source or a controller may produce
NumValues == 2
\* how many then/catch/finally/subscribe registrations one state receives
MaxSubs == 2
\* how many events a wrapped push stream may produce after its first one
MaxLate == 1

(* ------------------------------ values -------------------------------- *)

\* JavaScript undefined in a value position (signal<T | undefined>(undefined))
Undef == 0
Values == 1..NumValues

\* JavaScript undefined in an error position
NoErr == [kind |-> "undefined", inst |-> 0]
\* a thrown value that is not an Error instance
RawThrown == [kind |-> "raw", inst |-> 0]
\* an Error instance rejected by the wrapped source
SourceErr == [kind |-> "SourceError", inst |-> 0]
\* an Error instance handed to setError by the controller
GivenErr == [kind |-> "GivenError", inst |-> 0]
\* an Error instance handed to cancel as its reason
ReasonErr == [kind |-> "ReasonError", inst |-> 0]

IsErrorInstance(e) == e.kind \notin {"undefined", "raw"}

\* the variants; "Async" is unnamed/part_004, "AsyncFwd" is
\* src/request-state/async-request-state.ts
Variants == {"Static", "Error", "Empty", "Loading", "Writable", "Async", "AsyncFwd"}
AsyncVariants == {"Async", "AsyncFwd"}

\* what a user callback does with the state it was registered on
Scripts == {"noop", "cancel", "setValue"}
\* what a reason thunk does before it returns its Error
ThunkScripts == {"noop", "cancel", "setValue"}

\* the reason argument of cancel
Reasons ==
  {[type |-> "omitted", script |-> "noop"],
   [type |-> "string", script |-> "noop"],
   [type |-> "instance", script |-> "noop"]}
  \cup {[type |-> "thunk", script |-> sc] : sc \in ThunkScripts}

Omitted == [type |-> "omitted", script |-> "noop"]

(* --------------------------- object records --------------------------- *)

\* a ReplaySubject / Subject: buffer, isStopped, hasError, thrownError
NewSubject == [buffer |-> <<>>, stopped |-> FALSE, hasError |-> FALSE, thrown |-> NoErr]

\* the fields every RequestState exposes, plus the private ones of the variants
NewState(variant, value, onCancelScript, factory) ==
  [variant |-> variant,
   value |-> value,
   completed |-> FALSE,
   result |-> IF variant = "Static" THEN value ELSE Undef,
   loading |-> variant \in {"Loading", "Writable", "Async", "AsyncFwd"},
   error |-> IF variant = "Error" THEN [kind |-> "FactoryError", inst |-> 1] ELSE NoErr,
   cancelled |-> FALSE,
   cancelledCh |-> NewSubject,
   onCancel |-> onCancelScript,
   onCancelCalls |-> 0,
   req |-> NewSubject,
   res |-> NewSubject,
   subStopped |-> FALSE,
   subClosed |-> FALSE,
   seen |-> 0,
   srcDone |-> FALSE,
   emits |-> 0,
   subs |-> IF variant = "AsyncFwd"
            THEN <<[kind |-> "internal", script |-> "noop", closed |-> FALSE, got |-> <<>>]>>
            ELSE <<>>,
   factory |-> factory,
   nerr |-> IF variant = "Error" THEN 1 ELSE 0,
   factoryCalls |-> IF variant = "Error" THEN 1 ELSE 0,
   fullErr |-> NoErr,
   calls |-> <<>>]

\* failed: computed(() => this._error() !== undefined) in the writable and async
\* classes, a constant signal in the others
Failed(s) ==
  IF s.variant \in {"Writable", "Async", "AsyncFwd"} THEN s.error # NoErr
  ELSE s.variant = "Error"

\* what a reader of the signals and of the request channel sees
Snap(s) ==
  [result |-> s.result, loading |-> s.loading, error |-> s.error, failed |-> Failed(s),
   cancelled |-> s.cancelled, completed |-> s.completed,
   emitted |-> Len(s.req.buffer), stopped |-> s.req.stopped]

(* ------------------------- external primitives ------------------------ *)

RECURSIVE Call(_, _), Deliver(_, _, _, _)

\* parseError of @juulsgaard/ts-tools: an Error instance is returned as it is,
\* anything else (undefined included) becomes a new generic Error
parseError(s, e) ==
  IF IsErrorInstance(e) THEN e ELSE [kind |-> "UnknownError", inst |-> s.nerr + 1]

\* the state after parseError(e) has run: a new Error instance exists
Alloc(s, e) == IF IsErrorInstance(e) THEN s ELSE [s EXCEPT !.nerr = @ + 1]

Event(type, val, err) == [type |-> type, val |-> val, err |-> err]

\* the call a script makes on the state it belongs to
ScriptCall(s, script) ==
  CASE script = "cancel" -> [op |-> "cancel", reason |-> Omitted, val |-> Undef, err |-> NoErr]
    [] script = "setValue" /\ s.variant = "Writable" ->
         [op |-> "setValue", reason |-> Omitted, val |-> 1, err |-> NoErr]
    [] OTHER -> [op |-> "none", reason |-> Omitted, val |-> Undef, err |-> NoErr]

\* the body of a user callback, of a reason thunk or of the onCancel handler
RunScript(s, script) == Call(s, ScriptCall(s, script))

\* a user callback runs: it is handed val/err, reads the signals, and then does
\* what its script says
Invoke(s, i, how, val, err) ==
  RunScript([s EXCEPT !.subs[i].got =
                Append(@, [how |-> how, val |-> val, err |-> err, saw |-> Snap(s)])],
            s.subs[i].script)

\* Subscriber: isStopped / closed of one registration's subscriber chain
Close(s, i) == [s EXCEPT !.subs[i].closed = TRUE]

\* _result$.next / _result$.complete (no subscriber of result$ is modelled)
ResNext(s, v) == IF s.res.stopped THEN s ELSE [s EXCEPT !.res.buffer = Append(@, v)]
ResComplete(s) == [s EXCEPT !.res.stopped = TRUE]

\* a write of the loading signal that is left out
set_loading_skipped(s, b) == s

\* signal writes
set_loading(s, b) == [s EXCEPT !.loading = b]
set_result(s, v) == [s EXCEPT !.result = v]
\* _error.set(parseError(error))
set_error(s, e) == [Alloc(s, e) EXCEPT !.error = parseError(s, e)]

(* ------------------- observers of the request channel ------------------ *)

\* the subscriber the forwarding AsyncRequestState attaches to its own request$
Fwd_observer(s, i, ev) ==
  CASE ev.type = "next" -> set_result(ResNext(s, ev.val), ev.val)
    [] ev.type = "error" -> set_loading(ResComplete(set_error(Close(s, i), ev.err)), FALSE)
    [] OTHER -> set_loading(ResComplete(Close(s, i)), FALSE)

\* What an observer does with a notification: whether its subscriber stops
\* before the callback runs (error and complete stop it first), which callback
\* runs, and whether the subscription ends after it.
Handling(stopFirst, how, endAfter) ==
  [stopFirst |-> stopFirst, how |-> how, endAfter |-> endAfter]

\* then: request$.pipe(first()).subscribe({next: onValue, error: onError});
\* first() is take(1) followed by throwIfEmpty(() => new EmptyError())
then_observer(type) ==
  CASE type = "next" -> Handling(FALSE, "value", TRUE)
    [] type = "error" -> Handling(TRUE, "error", TRUE)
    [] OTHER -> Handling(TRUE, "empty", TRUE)

\* catch: request$.subscribe({error: e => onError(parseError(e))})
catch_observer(type) ==
  CASE type = "next" -> Handling(FALSE, "none", FALSE)
    [] type = "error" -> Handling(TRUE, "error", TRUE)
    [] OTHER -> Handling(TRUE, "none", TRUE)

\* finally: request$.subscribe({error: e => onComplete(parseError(e)),
\*                              complete: () => onComplete()})
finally_observer(type) ==
  CASE type = "next" -> Handling(FALSE, "none", FALSE)
    [] type = "error" -> Handling(TRUE, "error", TRUE)
    [] OTHER -> Handling(TRUE, "complete", TRUE)

\* subscribe(observer): the raw request channel, with a full observer
subscribe_observer(type) ==
  CASE type = "next" -> Handling(FALSE, "value", FALSE)
    [] type = "error" -> Handling(TRUE, "rawerror", TRUE)
    [] OTHER -> Handling(TRUE, "complete", TRUE)

ObserverOf(kind, type) ==
  CASE kind = "then" -> then_observer(type)
    [] kind = "catch" -> catch_observer(type)
    [] kind = "finally" -> finally_observer(type)
    [] OTHER -> subscribe_observer(type)

\* the error a callback is handed: parseError(e), a new EmptyError, or e itself
ErrArg(s, ev, how) ==
  CASE how = "error" -> parseError(s, ev.err)
    [] how = "empty" -> [kind |-> "EmptyError", inst |-> s.nerr + 1]
    [] how = "rawerror" -> ev.err
    [] OTHER -> NoErr

AllocArg(s, ev, how) ==
  CASE how = "error" -> Alloc(s, ev.err)
    [] how = "empty" -> [s EXCEPT !.nerr = @ + 1]
    [] OTHER -> s

\* the name the callback log gives an invocation
HowName(how) == IF how = "empty" THEN "error" ELSE how

\* one notification handled by one registration
Handle(s, i, ev, h) ==
  IF h.how = "none" THEN [s EXCEPT !.subs[i].closed = h.stopFirst]
  ELSE [Invoke([AllocArg(s, ev, h.how) EXCEPT !.subs[i].closed = h.stopFirst],
               i, HowName(h.how), ev.val, ErrArg(s, ev, h.how))
          EXCEPT !.subs[i].closed = @ \/ h.endAfter]

\* Subscriber.next/error/complete: a stopped subscriber drops the notification
Notify(s, i, ev) ==
  IF s.subs[i].closed THEN s
  ELSE IF s.subs[i].kind = "internal" THEN Fwd_observer(s, i, ev)
  ELSE Handle(s, i, ev, ObserverOf(s.subs[i].kind, ev.type))

\* Subject.next/error/complete notify the observers in subscription order
\* (the state handed in is evaluated once and then bound to s)
Deliver(s0, i, n, ev) ==
  CHOOSE after \in {IF i > n THEN s ELSE Deliver(Notify(s, i, ev), i + 1, n, ev)
                      : s \in {s0}} : TRUE

\* ReplaySubject.next: buffered and sent on unless the subject has stopped
ReqNext(s, v) ==
  IF s.req.stopped THEN s
  ELSE Deliver([s EXCEPT !.req.buffer = Append(@, v)], 1, Len(s.subs),
               Event("next", v, NoErr))

\* Subject.error: the first terminal call stops the subject, later ones are dropped
ReqError(s, e) ==
  IF s.req.stopped THEN s
  ELSE Deliver([s EXCEPT !.req.stopped = TRUE, !.req.hasError = TRUE, !.req.thrown = e],
               1, Len(s.subs), Event("error", Undef, e))

\* Subject.complete
ReqComplete(s) ==
  IF s.req.stopped THEN s
  ELSE Deliver([s EXCEPT !.req.stopped = TRUE], 1, Len(s.subs),
               Event("complete", Undef, NoErr))

(* ----------------------- the cancel reason argument -------------------- *)

\* isString(error) ? new CancelledError(error) : isFunction(error) ? error() : error
\* gives the state after the expression has run, the produced error in fullErr
NewError(s, kind) == [s EXCEPT !.nerr = @ + 1, !.fullErr = [kind |-> kind, inst |-> s.nerr + 1]]

fullError(s, reason) ==
  CASE reason.type = "string" -> NewError(s, "CancelledError")
    [] reason.type = "thunk" -> NewError(RunScript(s, reason.script), "ThunkError")
    [] reason.type = "instance" -> [s EXCEPT !.fullErr = ReasonErr]
    [] OTHER -> [s EXCEPT !.fullErr = NoErr]

\* a method's state and return value
Ret(s, ret) == [s |-> s, ret |-> ret]

(* ---------------- AsyncRequestState with a completed latch ------------- *)

\* Subscription.unsubscribe of the subscription to the wrapped source
unsubscribe(s) == [s EXCEPT !.subStopped = TRUE, !.subClosed = TRUE]

\* this._completed = true
Latch(s) == [s EXCEPT !.completed = TRUE]

Async_onError(s, e) ==
  IF s.completed THEN s
  ELSE set_error(set_loading(ResComplete(ReqError(Latch(s), e)), FALSE), e)

Async_onValue(s, v) ==
  IF s.completed THEN s
  ELSE set_result(set_loading(ResComplete(ResNext(ReqComplete(ReqNext(Latch(s), v)), v)),
                              FALSE), v)

Async_onCompleted(s) ==
  IF s.completed THEN s
  ELSE set_loading(ResComplete(ReqComplete(Latch(s))), FALSE)

\* this.onError(fullError)
Async_onFullError(f) == Async_onError(f, f.fullErr)

Async_cancel(s, reason) ==
  IF s.completed THEN Ret(s, FALSE)
  ELSE Ret(Async_onFullError(fullError(unsubscribe(s), reason)), TRUE)

(* ------- AsyncRequestState forwarding the source into _request$ -------- *)

\* this._request$.error(fullError)
Fwd_errorFull(f) == ReqError(f, f.fullErr)

\* cancel of the forwarding class without its sub.closed test
Fwd_cancel_untested(s, reason) ==
  Ret(Fwd_errorFull(fullError(unsubscribe(s), reason)), TRUE)

Fwd_cancel(s, reason) ==
  IF s.subClosed THEN Ret(s, FALSE)
  ELSE Ret(Fwd_errorFull(fullError(unsubscribe(s), reason)), TRUE)

(* -------------------------- WritableRequestState ------------------------ *)

\* setError without its _result$.complete()
Writable_setError_result_open(s, e) ==
  IF s.completed THEN s
  ELSE set_error(set_loading(ReqError(Latch(s), e), FALSE), e)

Writable_setError(s, e) ==
  IF s.completed THEN s
  ELSE set_error(set_loading(ResComplete(ReqError(Latch(s), e)), FALSE), e)

\* setValue without its completed check
Writable_setValue_unguarded(s, v) ==
  set_result(set_loading(ReqComplete(ReqNext(Latch(s), v)), FALSE), v)

Writable_setValue(s, v) ==
  IF s.completed THEN s
  ELSE set_result(set_loading(ReqComplete(ReqNext(Latch(s), v)), FALSE), v)

\* this.onCancel?.()
onCancel(s) ==
  IF s.onCancel = "none" THEN s
  ELSE RunScript([s EXCEPT !.onCancelCalls = @ + 1], s.onCancel)

\* _cancelled.set(true); _cancelled$.next(true); _cancelled$.complete()
set_cancelled(s) ==
  [s EXCEPT !.cancelled = TRUE,
            !.cancelledCh.buffer = IF s.cancelledCh.stopped THEN @ ELSE Append(@, TRUE),
            !.cancelledCh.stopped = TRUE]

\* this.setError(fullError)
Writable_setFullError(f) == Writable_setError(f, f.fullErr)

Writable_cancel(s, reason) ==
  IF s.completed THEN Ret(s, FALSE)
  ELSE Ret(onCancel(set_cancelled(Writable_setFullError(fullError(s, reason)))), TRUE)

(* -------------------------- LoadingRequestState ------------------------- *)

\* Subject.closed: set by Subject.unsubscribe only, which nothing here calls
SubjectClosed(s) == FALSE

\* cancel of the loading state reporting success
Loading_cancel_reports_true(s) ==
  IF SubjectClosed(s) THEN Ret(s, FALSE)
  ELSE Ret(set_loading(ReqComplete(s), FALSE), TRUE)

Loading_cancel(s) ==
  IF SubjectClosed(s) THEN Ret(s, FALSE)
  ELSE Ret(set_loading(ReqComplete(s), FALSE), FALSE)

(* --------------------------- calls and scripts -------------------------- *)

\* cancel of each variant (static, error and empty states return false)
cancel(s, reason) ==
  CASE s.variant = "Async" -> Async_cancel(s, reason)
    [] s.variant = "AsyncFwd" -> Fwd_cancel(s, reason)
    [] s.variant = "Writable" -> Writable_cancel(s, reason)
    [] s.variant = "Loading" -> Loading_cancel(s)
    [] OTHER -> Ret(s, FALSE)

RECURSIVE SumGot(_, _)
SumGot(subs, i) == IF i > Len(subs) THEN 0 ELSE Len(subs[i].got) + SumGot(subs, i + 1)

\* how many user callbacks (handlers and onCancel) have run so far
Ran(s) == s.onCancelCalls + SumGot(s.subs, 1)

\* one call, with what held before and after it, what it returned and how
\* many callbacks ran inside it
Logged(c, pre, r) ==
  [r.s EXCEPT !.calls = Append(@, [op |-> c.op, omitted |-> c.reason.type = "omitted", ret |-> r.ret,
                                    top |-> FALSE, pre |-> Snap(pre), post |-> Snap(r.s),
                                    ran |-> Ran(r.s) - Ran(pre)])]

\* a call of cancel, setValue or setError, from the top level or from a script
Call(s, c) ==
  CASE c.op = "cancel" -> Logged(c, s, cancel(s, c.reason))
    [] c.op = "setValue" -> Logged(c, s, Ret(Writable_setValue(s, c.val), FALSE))
    [] c.op = "setError" -> Logged(c, s, Ret(Writable_setError(s, c.err), FALSE))
    [] OTHER -> s

\* the call made from outside any callback is the last one to return
MarkTop(r) == [r EXCEPT !.calls[Len(r.calls)].top = TRUE]
TopCall(s, c) == MarkTop(Call(s, c))

(* ------------------- the subscription to the source -------------------- *)

\* the observer handed to request$.subscribe in the constructor: the three
\* private methods in one class, the _request$ subject itself in the other
source_observer(s, ev) ==
  IF s.variant = "Async"
  THEN CASE ev.type = "next" -> Async_onValue(s, ev.val)
         [] ev.type = "error" -> Async_onError(s, ev.err)
         [] OTHER -> Async_onCompleted(s)
  ELSE CASE ev.type = "next" -> ReqNext(s, ev.val)
         [] ev.type = "error" -> ReqError(s, ev.err)
         [] OTHER -> ReqComplete(s)

\* Subscriber.next: dropped once the subscriber has stopped
sub_next(s, v) ==
  IF s.subStopped THEN s ELSE source_observer(s, Event("next", v, NoErr))

\* Subscriber.error / complete: stop, notify, and only then unsubscribe (closed)
sub_error(s, e) ==
  IF s.subStopped THEN s
  ELSE [source_observer([s EXCEPT !.subStopped = TRUE], Event("error", Undef, e))
          EXCEPT !.subClosed = TRUE]

sub_complete(s) ==
  IF s.subStopped THEN s
  ELSE [source_observer([s EXCEPT !.subStopped = TRUE], Event("complete", Undef, NoErr))
          EXCEPT !.subClosed = TRUE]

\* a source whose value is lost
source_next_lost(s, v) == s

\* a source subscribed without take(1): every value is passed on, none is
\* followed by complete
source_next_every_value(s, v) ==
  IF s.subClosed THEN s ELSE sub_next(s, v)

\* request.pipe(take(1)) / from(request): the first value is passed on and
\* followed by complete; nothing is passed to a closed subscription
source_next(s, v) ==
  IF s.subClosed \/ s.seen >= 1 THEN s
  ELSE sub_complete(sub_next([s EXCEPT !.seen = 1], v))

source_error(s, e) == IF s.subClosed THEN s ELSE sub_error(s, e)

source_complete(s) == IF s.subClosed THEN s ELSE sub_complete(s)

(* ---------------------- then / catch / finally / subscribe -------------- *)

\* the error factory of an ErrorRequestState: () => error for a given instance
\* (errorRequestState), or a factory making a new Error per call
\* a getError whose result is also written to the error signal
getError_into_signal(s) ==
  [s EXCEPT !.factoryCalls = @ + 1, !.nerr = @ + 1,
            !.fullErr = [kind |-> "FactoryError", inst |-> s.nerr + 1],
            !.error = [kind |-> "FactoryError", inst |-> s.nerr + 1]]

getError(s) ==
  IF s.factory = "same"
  THEN [s EXCEPT !.factoryCalls = @ + 1, !.fullErr = [kind |-> "FactoryError", inst |-> 1]]
  ELSE [s EXCEPT !.factoryCalls = @ + 1, !.nerr = @ + 1,
                 !.fullErr = [kind |-> "FactoryError", inst |-> s.nerr + 1]]

RECURSIVE Replay(_, _, _)
\* ReplaySubject._subscribe: the buffered values, while the subscriber is open
Replay(s, i, k) ==
  IF k > Len(s.req.buffer) THEN s
  ELSE Replay(Notify(s, i, Event("next", s.req.buffer[k], NoErr)), i, k + 1)

\* request$.subscribe(subscriber) for the request$ of each variant
\* Subject._checkFinalizedStatuses
Finalized(s, i) ==
  IF s.req.hasError THEN Notify(s, i, Event("error", Undef, s.req.thrown))
  ELSE IF s.req.stopped THEN Notify(s, i, Event("complete", Undef, NoErr))
  ELSE s

\* throwError(getError): subscriber.error(errorFactory())
Thrown(g, i) == Notify(g, i, Event("error", Undef, g.fullErr))

\* request$.subscribe with an EMPTY that never notifies
request_subscribe_silent_empty(s, i) ==
  CASE s.variant = "Static" ->
         Notify(Notify(s, i, Event("next", s.value, NoErr)), i, Event("complete", Undef, NoErr))
    [] s.variant = "Error" -> Thrown(getError(s), i)
    [] s.variant = "Empty" -> s
    [] OTHER -> Finalized(Replay(s, i, 1), i)

request_subscribe(s, i) ==
  CASE s.variant = "Static" ->
         Notify(Notify(s, i, Event("next", s.value, NoErr)), i, Event("complete", Undef, NoErr))
    [] s.variant = "Error" -> Thrown(getError(s), i)
    [] s.variant = "Empty" -> Notify(s, i, Event("complete", Undef, NoErr))
    [] OTHER -> Finalized(Replay(s, i, 1), i)

NewSub(kind, script) == [kind |-> kind, script |-> script, closed |-> FALSE, got |-> <<>>]

\* IValueRequestState.then/catch/finally/subscribe
base_register(s, kind, script) ==
  request_subscribe([s EXCEPT !.subs = Append(@, NewSub(kind, script))], Len(s.subs) + 1)

\* StaticRequestState overrides then, catch and finally
\* then/finally of the static state without the call of the handler
Static_callback_dropped(s, i, how) == s

Static_callback(s, i, how) ==
  IF how = "none" THEN s
  ELSE Invoke(s, i, how, IF how = "value" THEN s.value ELSE Undef, NoErr)

Static_register(s, kind, script) ==
  IF kind = "subscribe" THEN base_register(s, kind, script)
  ELSE Static_callback(
         Close([s EXCEPT !.subs = Append(@, NewSub(kind, script))], Len(s.subs) + 1),
         Len(s.subs) + 1,
         CASE kind = "then" -> "value" [] kind = "finally" -> "complete" [] OTHER -> "none")

register(s, kind, script) ==
  IF s.variant = "Static" THEN Static_register(s, kind, script)
  ELSE base_register(s, kind, script)

(* ------------------------------ the tracker ----------------------------- *)

\* the members constructors.ts assigns to the exported requestState function
FacadeMembers == {"writable", "error"}

\* the named alternates the AltConstructors interface declares
Alternates == {"writable", "error", "loading", "empty"}

\* the data handed to requestState(data): a plain value, a promise or a push
\* stream
PlainInputs == {"value1", "value2"}
Inputs == PlainInputs \cup {"promise", "observable"}

\* the value a plain input is
DataValue(d) == CASE d = "value1" -> 1 [] d = "value2" -> 2 [] OTHER -> Undef

\* isObservable of rxjs: an Observable instance (or an object with lift and subscribe)
isObservable(d) == d = "observable"

\* isPromise of rxjs: an object with a then method
isPromise(d) == d = "promise"

\* valueRequestState without its isPromise test
valueRequestState_promise_as_value(d) ==
  IF isObservable(d) THEN NewState("AsyncFwd", Undef, "none", "same")
  ELSE NewState("Static", DataValue(d), "none", "same")

\* valueRequestState; constructors.ts imports the AsyncRequestState of
\* ./async-request-state
valueRequestState(d) ==
  IF isObservable(d) THEN NewState("AsyncFwd", Undef, "none", "same")
  ELSE IF isPromise(d) THEN NewState("AsyncFwd", Undef, "none", "same")
  ELSE NewState("Static", DataValue(d), "none", "same")

\* what a call through the exported requestState is given: nothing, a duration
\* and a value, an onCancel handler, an Error or an error factory, a plain
\* value, or a promise / push stream
FacadeArgs ==
  {[member |-> "writable", with |-> c] : c \in {"none", "cancel"}}
  \cup {[member |-> "error", with |-> f] : f \in {"same", "fresh"}}
  \cup {[member |-> "loading", with |-> d] : d \in {"none", "duration"}}
  \cup {[member |-> "empty", with |-> "none"]}
  \cup {[member |-> "call", with |-> d] : d \in Inputs}

\* valueRequestState, errorRequestState, loadingRequestState,
\* emptyRequestState and writableRequestState; constructors.ts imports the
\* AsyncRequestState of ./async-request-state
facade_construct(a) ==
  CASE a.member = "writable" -> NewState("Writable", Undef, a.with, "same")
    [] a.member = "error" -> NewState("Error", Undef, "none", a.with)
    [] a.member = "loading" /\ a.with = "none" -> NewState("Loading", Undef, "none", "same")
    [] a.member = "loading" -> valueRequestState("observable")
    [] a.member = "empty" -> NewState("Empty", Undef, "none", "same")
    [] OTHER -> valueRequestState(a.with)

\* no call through the exported requestState has been made
NoCall == [member |-> "none", with |-> "none", threw |-> FALSE, id |-> 0]

\* requestState(data) / requestState.member(...): calling a member that was
\* never assigned raises a TypeError
requestState_call(h, a) ==
  IF a.member = "call" \/ a.member \in FacadeMembers
  THEN [heap |-> Append(h, facade_construct(a)),
        made |-> [member |-> a.member, with |-> a.with, threw |-> FALSE, id |-> Len(h) + 1]]
  ELSE [heap |-> h, made |-> [member |-> a.member, with |-> a.with, threw |-> TRUE, id |-> 0]]

\* requestState.empty(): a new EmptyRequestState, or a TypeError when the
\* member was never assigned
requestState_empty(h) ==
  IF "empty" \in FacadeMembers
  THEN [ok |-> TRUE, heap |-> Append(h, NewState("Empty", Undef, "none", "same")),
        id |-> Len(h) + 1]
  ELSE [ok |-> FALSE, heap |-> h, id |-> 0]

\* last and prev record the arguments of the last two set calls, op the last
\* operation made on the tracker, initial the argument of its constructor
NoTracker == [status |-> "absent", class |-> "none", request |-> 0, valueRequest |-> 0,
              threw |-> FALSE, last |-> 0, prev |-> 0, op |-> "none", initial |-> 0]

\* new RequestTracker(request?): _request = signal(request ?? requestState.empty())
RequestTracker_new(h, request) ==
  IF request # 0
  THEN [heap |-> h,
        trk |-> [NoTracker EXCEPT !.status = "live", !.class = "RequestTracker",
                                  !.request = request]]
  ELSE LET e == requestState_empty(h)
       IN IF e.ok
          THEN [heap |-> e.heap,
                trk |-> [NoTracker EXCEPT !.status = "live", !.class = "RequestTracker",
                                          !.request = e.id]]
          ELSE [heap |-> h, trk |-> [NoTracker EXCEPT !.status = "failed", !.threw = TRUE]]

\* new ValueRequestTracker(request?): super() without the request, then
\* _valueRequest = signal(request ?? requestState.empty<T>())
ValueRequestTracker_new(h, request) ==
  LET base == RequestTracker_new(h, 0)
  IN IF base.trk.status # "live" THEN base
     ELSE IF request # 0
     THEN [heap |-> base.heap,
           trk |-> [base.trk EXCEPT !.class = "ValueRequestTracker",
                                    !.valueRequest = request]]
     ELSE LET e == requestState_empty(base.heap)
          IN IF e.ok
             THEN [heap |-> e.heap,
                   trk |-> [base.trk EXCEPT !.class = "ValueRequestTracker",
                                            !.valueRequest = e.id]]
             ELSE [heap |-> h, trk |-> [NoTracker EXCEPT !.status = "failed", !.threw = TRUE]]

\* request instanceof IValueRequestState: every RequestState class extends it
IsValueRequestState(s) == s.variant \in Variants

\* requestTracker(request?)
requestTracker(h, request) ==
  IF request = 0 THEN ValueRequestTracker_new(h, 0)
  ELSE IF IsValueRequestState(h[request]) THEN ValueRequestTracker_new(h, request)
  ELSE RequestTracker_new(h, request)

\* a set that leaves the cell as it is
tracker_set_ignored(t, state) == t

\* RequestTracker.set / ValueRequestTracker.set
tracker_set(t, state) ==
  IF t.class = "ValueRequestTracker"
  THEN [t EXCEPT !.request = state, !.valueRequest = state, !.threw = FALSE]
  ELSE [t EXCEPT !.request = state, !.threw = FALSE]

\* RequestTracker.reset / ValueRequestTracker.reset
tracker_reset(h, t) ==
  LET e1 == requestState_empty(h)
  IN IF ~e1.ok THEN [heap |-> h, trk |-> [t EXCEPT !.threw = TRUE]]
     ELSE IF t.class # "ValueRequestTracker"
     THEN [heap |-> e1.heap, trk |-> tracker_set(t, e1.id)]
     ELSE LET e2 == requestState_empty(e1.heap)
          IN [heap |-> e2.heap, trk |-> tracker_set([t EXCEPT !.request = e1.id], e2.id)]

\* get current(): untracked(this.request)
tracker_current(t) ==
  IF t.class = "ValueRequestTracker" THEN t.valueRequest ELSE t.request

\* loading / error / failed: computed(() => this._request().loading()) ...
tracker_loading(h, t) == h[t.request].loading
tracker_error(h, t) == h[t.request].error
tracker_failed(h, t) == Failed(h[t.request])

(* ------------------------------- actions -------------------------------- *)

\* a top-level call starts with an empty record of the calls made in it
Fresh(s) == [s EXCEPT !.calls = <<>>]

\* the states the constructors produce
Constructed ==
  {NewState("Static", v, "none", "same") : v \in Values}
  \cup {NewState("Error", Undef, "none", f) : f \in {"fresh", "same"}}
  \cup {NewState(x, Undef, "none", "same") : x \in {"Empty", "Loading", "Async", "AsyncFwd"}}
  \cup {NewState("Writable", Undef, c, "same") : c \in {"none", "cancel"}}

\* the scripts a callback on this variant can run
ScriptsOf(s) == IF s.variant = "Writable" THEN Scripts ELSE {"noop", "cancel"}
ReasonsOf(s) == {r \in Reasons : r.script \in ScriptsOf(s)}

UserSubs(s) == Cardinality({i \in DOMAIN s.subs : s.subs[i].kind # "internal"})

\* the wrapped source emits a value
SourceValue(o, v) ==
  /\ heap[o].variant \in AsyncVariants
  /\ ~heap[o].srcDone
  /\ heap[o].emits <= MaxLate
  /\ heap' = [heap EXCEPT ![o] = source_next([Fresh(@) EXCEPT !.emits = @ + 1], v)]
  /\ UNCHANGED <<trk, made>>

\* the wrapped source fails
SourceError(o, e) ==
  /\ heap[o].variant \in AsyncVariants
  /\ ~heap[o].srcDone
  /\ heap' = [heap EXCEPT ![o] = source_error([Fresh(@) EXCEPT !.srcDone = TRUE], e)]
  /\ UNCHANGED <<trk, made>>

\* the wrapped push stream completes
SourceComplete(o) ==
  /\ heap[o].variant \in AsyncVariants
  /\ ~heap[o].srcDone
  /\ heap' = [heap EXCEPT ![o] = source_complete([Fresh(@) EXCEPT !.srcDone = TRUE])]
  /\ UNCHANGED <<trk, made>>

Cancel(o, reason) ==
  /\ reason \in ReasonsOf(heap[o])
  /\ heap' = [heap EXCEPT ![o] = TopCall(Fresh(@), [op |-> "cancel", reason |-> reason, val |-> Undef, err |-> NoErr])]
  /\ UNCHANGED <<trk, made>>

SetValue(o, v) ==
  /\ heap[o].variant = "Writable"
  /\ heap' = [heap EXCEPT ![o] = TopCall(Fresh(@), [op |-> "setValue", reason |-> Omitted, val |-> v, err |-> NoErr])]
  /\ UNCHANGED <<trk, made>>

SetError(o, e) ==
  /\ heap[o].variant = "Writable"
  /\ heap' = [heap EXCEPT ![o] = TopCall(Fresh(@), [op |-> "setError", reason |-> Omitted, val |-> Undef, err |-> e])]
  /\ UNCHANGED <<trk, made>>

\* then / catch / finally / subscribe with a callback running `script`
Register(o, kind, script) ==
  /\ UserSubs(heap[o]) < MaxSubs
  /\ script \in ScriptsOf(heap[o])
  /\ kind = "subscribe" => script = "noop"
  /\ script = "setValue" => kind = "then"
  /\ heap' = [heap EXCEPT ![o] = register(Fresh(@), kind, script)]
  /\ UNCHANGED <<trk, made>>

SubKinds == {"then", "catch", "finally", "subscribe"}

StateStep(o) ==
  \/ \E v \in Values : SourceValue(o, v)
  \/ \E e \in {SourceErr, RawThrown} : SourceError(o, e)
  \/ SourceComplete(o)
  \/ \E r \in Reasons : Cancel(o, r)
  \/ \E v \in Values : SetValue(o, v)
  \/ \E e \in {GivenErr, RawThrown} : SetError(o, e)

Init ==
  /\ \E s \in Constructed : heap = <<s>>
  /\ trk = NoTracker
  /\ made = NoCall

Next ==
  \/ StateStep(1)
  \/ \E k \in SubKinds, sc \in Scripts : Register(1, k, sc)

Spec == Init /\ [][Next]_vars

(* --------------------------- tracker actions ---------------------------- *)

Construct(class, request) ==
  /\ trk.status # "live"
  /\ LET r == CASE class = "RequestTracker" -> RequestTracker_new(heap, request)
                [] class = "ValueRequestTracker" -> ValueRequestTracker_new(heap, request)
                [] OTHER -> requestTracker(heap, request)
     IN heap' = r.heap /\ trk' = [r.trk EXCEPT !.op = "new", !.initial = request]
  /\ UNCHANGED made

\* a set that cancels the state it swaps out
Set_cancelling_previous(o) ==
  /\ trk.status = "live"
  /\ o # trk.last
  /\ trk' = [tracker_set(trk, o) EXCEPT !.prev = trk.last, !.last = o, !.op = "set"]
  /\ heap' = [heap EXCEPT ![tracker_current(trk)] =
                TopCall(Fresh(@), [op |-> "cancel", reason |-> Omitted, val |-> Undef, err |-> NoErr])]
  /\ UNCHANGED made

Set(o) ==
  /\ trk.status = "live"
  /\ o # trk.last
  /\ trk' = [tracker_set(trk, o) EXCEPT !.prev = trk.last, !.last = o, !.op = "set"]
  /\ UNCHANGED <<heap, made>>

Reset ==
  /\ trk.status = "live"
  /\ LET r == tracker_reset(heap, trk)
     IN /\ heap' = r.heap
        /\ trk' = IF r.trk.threw THEN [r.trk EXCEPT !.op = "reset"]
                   ELSE [r.trk EXCEPT !.prev = 0, !.last = 0, !.op = "reset"]
  /\ UNCHANGED made

\* the variants a tracker is made to hold here
Tracked ==
  {s \in Constructed : s.variant \in {"Static", "Loading", "Writable", "Async"}
                       /\ s.onCancel = "none" /\ s.value <= 1}

TrackerInit ==
  /\ \E a \in Tracked, b \in Tracked : heap = <<a, b>>
  /\ trk = NoTracker
  /\ made = NoCall

\* a tracked state is driven up to its terminal transition (what calls on a
\* terminal state do is explored under Spec)
TrackedStep(o) == heap[o].loading /\ StateStep(o)

TrackerNext ==
  \/ \E o \in DOMAIN heap : TrackedStep(o)
  \/ \E c \in {"RequestTracker", "ValueRequestTracker", "requestTracker"},
        r \in {0} \cup DOMAIN heap : Construct(c, r)
  \/ \E o \in DOMAIN heap : Set(o)
  \/ Reset

TrackerSpec == TrackerInit /\ [][TrackerNext]_vars

(* ------------------------ a source that resolves ------------------------ *)

\* an Async-Source whose source delivers a value (and may complete or emit
\* again afterwards), with handlers that do not call back into the state
ResolveInit ==
  /\ \E s \in Constructed : s.variant \in AsyncVariants /\ heap = <<s>>
  /\ trk = NoTracker
  /\ made = NoCall

ResolveNext ==
  \/ \E v \in Values : SourceValue(1, v)
  \/ heap[1].emits >= 1 /\ SourceComplete(1)
  \/ \E k \in SubKinds : Register(1, k, "noop")

\* the source resolves eventually
ResolveSpec ==
  ResolveInit /\ [][ResolveNext]_vars /\ WF_vars(\E v \in Values : SourceValue(1, v))

(* ---------------------------- facade actions ---------------------------- *)

\* how many states are constructed through the facade
MaxObjects == 2

\* a call through the exported requestState
Make(a) ==
  /\ Len(heap) < MaxObjects
  /\ LET r == requestState_call(heap, a)
     IN heap' = r.heap /\ made' = r.made
  /\ UNCHANGED trk

FacadeInit ==
  /\ heap = <<>>
  /\ trk = NoTracker
  /\ made = NoCall

FacadeNext ==
  \/ \E a \in FacadeArgs : Make(a)
  \/ \E o \in DOMAIN heap : TrackedStep(o)

FacadeSpec == FacadeInit /\ [][FacadeNext]_vars

(* ------------------------------- SignalSet ------------------------------ *)

NumElems == 3
MaxList == 3

Elems == 1 .. NumElems

\* the arrays handed to the constructor, addRange, set, deleteRange and filter
Lists == UNION {[1 .. n -> Elems] : n \in 0 .. MaxList}

\* new Set(values)
SetOf(values) == {values[k] : k \in DOMAIN values}

\* a Signal object: a function object whose call gives the value
SignalOf(v) == [kind |-> "signal", value |-> v]

\* the truthiness JavaScript gives an operand of ! or a result of an every
\* callback: a Signal is an object and so truthy, whatever its value
Truthy(x) == x.kind = "signal" \/ x.value

\* size = computed(() => this.value().size)
SignalSet_size(c) == SignalOf(Cardinality(c.set))

\* has(value) = computed(() => this.value().has(value))
SignalSet_has(c, x) == SignalOf(x \in c.set)

\* the result of a call as the caller sees it
Returned(b) == IF b THEN "true" ELSE "false"

\* a SignalSet after a call: the inner set, and the call with its return value
Called(c, op, arg, set, ret) ==
  [c EXCEPT !.set = set, !.op = op, !.arg = arg, !.ret = ret, !.pre = c.set]

SignalSet_new(values) ==
  [class |-> "SignalSet", set |-> SetOf(values), op |-> "new", arg |-> values,
   ret |-> "undefined", pre |-> {}]

SignalSet_clear(c) ==
  IF Cardinality(c.set) = 0 THEN Called(c, "clear", <<>>, c.set, "false")
  ELSE Called(c, "clear", <<>>, {}, "true")

SignalSet_filter(c, whitelist) ==
  IF Len(whitelist) = 0 THEN [SignalSet_clear(c) EXCEPT !.op = "filter"]
  ELSE Called(c, "filter", whitelist, c.set \cap SetOf(whitelist),
              Returned(Cardinality(c.set) # Cardinality(c.set \cap SetOf(whitelist))))

SignalSet_add(c, x) ==
  IF x \in c.set THEN Called(c, "add", <<x>>, c.set, "false")
  ELSE Called(c, "add", <<x>>, c.set \cup {x}, "true")

SignalSet_addRange(c, values) ==
  IF Cardinality(c.set \cup SetOf(values)) = Cardinality(c.set)
  THEN Called(c, "addRange", values, c.set, "false")
  ELSE Called(c, "addRange", values, c.set \cup SetOf(values), "true")

SignalSet_set(c, values) ==
  IF Len(values) = 0 /\ ~Truthy(SignalSet_size(c)) THEN Called(c, "set", values, c.set, "false")
  ELSE IF /\ Len(values) = Cardinality(c.set)
          /\ \A k \in DOMAIN values : Truthy(SignalSet_has(c, values[k]))
  THEN Called(c, "set", values, c.set, "false")
  ELSE Called(c, "set", values, SetOf(values), "true")

SignalSet_delete(c, x) ==
  IF x \notin c.set THEN Called(c, "delete", <<x>>, c.set, "false")
  ELSE Called(c, "delete", <<x>>, c.set \ {x}, "true")

SignalSet_deleteRange(c, values) ==
  IF Cardinality(c.set \ SetOf(values)) = Cardinality(c.set)
  THEN Called(c, "deleteRange", values, c.set, "false")
  ELSE Called(c, "deleteRange", values, c.set \ SetOf(values), "true")

\* toggle(value, state): state is true, false or left out
SignalSet_toggle(c, x, state) ==
  IF x \in c.set
  THEN IF state = "true" THEN Called(c, "toggle", <<x>>, c.set, "undefined")
       ELSE Called(c, "toggle", <<x>>, c.set \ {x}, "false")
  ELSE IF state = "false" THEN Called(c, "toggle", <<x>>, c.set, "undefined")
       ELSE Called(c, "toggle", <<x>>, c.set \cup {x}, "true")

\* modify(fn): fn may leave any set in the copy
SignalSet_modify(c, set) == Called(c, "modify", <<>>, set, "undefined")

\* one call of a method on the collection: the collection it leaves
CollectionCall(after) ==
  /\ heap' = [heap EXCEPT ![1] = after]
  /\ UNCHANGED <<trk, made>>

SetInit ==
  /\ \E values \in Lists : heap = <<SignalSet_new(values)>>
  /\ trk = NoTracker
  /\ made = NoCall

SetNext ==
  \/ CollectionCall(SignalSet_clear(heap[1]))
  \/ \E whitelist \in Lists : CollectionCall(SignalSet_filter(heap[1], whitelist))
  \/ \E x \in Elems : CollectionCall(SignalSet_add(heap[1], x))
  \/ \E values \in Lists : CollectionCall(SignalSet_addRange(heap[1], values))
  \/ \E values \in Lists : CollectionCall(SignalSet_set(heap[1], values))
  \/ \E x \in Elems : CollectionCall(SignalSet_delete(heap[1], x))
  \/ \E values \in Lists : CollectionCall(SignalSet_deleteRange(heap[1], values))
  \/ \E x \in Elems, state \in {"true", "false", "omitted"} :
       CollectionCall(SignalSet_toggle(heap[1], x, state))
  \/ \E set \in SUBSET Elems : CollectionCall(SignalSet_modify(heap[1], set))

SetSpec == SetInit /\ [][SetNext]_vars

(* ------------------------------ SignalQueue ----------------------------- *)

MaxSize == 2
MaxQueue == 4

\* `undefined` where a number is expected (maxSize, count)
NoNumber == -1

\* the sizes handed to the constructor and to setMaxSize: `size` is a number,
\* kept here in halves (3 is the size 1.5), up to MaxSize
Sizes == (0 .. 2 * MaxSize) \cup {NoNumber}

\* an array length as a number in halves
Halves(length) == 2 * length

\* the integer an array index in halves is converted to: the fraction is
\* dropped, towards zero
ToIntegerOrInfinity(halves) ==
  IF halves < 0 THEN 0 - ((0 - halves) \div 2) ELSE halves \div 2

\* the counts handed to dequeue and removeFromBack
Counts == (0 .. MaxList) \cup {NoNumber}

\* Array.prototype.slice: a negative index counts from the end, and both
\* indices are clamped to the array
SliceIndex(list, i) ==
  IF i < 0 THEN (IF Len(list) + i < 0 THEN 0 ELSE Len(list) + i)
  ELSE (IF i > Len(list) THEN Len(list) ELSE i)

Slice(list, start, end) == SubSeq(list, SliceIndex(list, start) + 1, SliceIndex(list, end))

SliceFrom(list, start) == Slice(list, start, Len(list))

\* Array.prototype.indexOf, from 0, -1 when absent
IndexOf(list, item) ==
  IF \E k \in DOMAIN list : list[k] = item
  THEN (CHOOSE k \in DOMAIN list : list[k] = item /\ \A j \in 1 .. k - 1 : list[j] # item) - 1
  ELSE -1

\* op is the method called last
SignalQueue_new(size) ==
  [class |-> "SignalQueue", items |-> <<>>, maxSize |-> size, op |-> "new"]

SignalQueue_removeItem(q, item) ==
  IF IndexOf(q.items, item) < 0 THEN [q EXCEPT !.op = "removeItem"]
  ELSE [q EXCEPT !.op = "removeItem",
                 !.items = Slice(@, 0, IndexOf(@, item)) \o SliceFrom(@, IndexOf(@, item) + 1)]

SignalQueue_dequeue(q, count) ==
  IF count # NoNumber
  THEN IF count < 1 \/ Len(q.items) = 0 THEN [q EXCEPT !.op = "dequeue"]
       ELSE [q EXCEPT !.op = "dequeue", !.items = SliceFrom(@, count)]
  ELSE IF Len(q.items) = 0 THEN [q EXCEPT !.op = "dequeue"]
       ELSE [q EXCEPT !.op = "dequeue", !.items = SliceFrom(@, 1)]

SignalQueue_removeFromBack(q, count) ==
  IF count # NoNumber
  THEN IF count < 1 \/ Len(q.items) = 0 THEN [q EXCEPT !.op = "removeFromBack"]
       ELSE [q EXCEPT !.op = "removeFromBack", !.items = Slice(@, 0, 0 - count)]
  ELSE IF Len(q.items) = 0 THEN [q EXCEPT !.op = "removeFromBack"]
       ELSE [q EXCEPT !.op = "removeFromBack", !.items = Slice(@, 0, -1)]

SignalQueue_enqueue(q, items) ==
  IF q.maxSize # NoNumber /\ Halves(Len(q.items \o items)) > q.maxSize
  THEN [q EXCEPT !.op = "enqueue",
                 !.items = SliceFrom(q.items \o items,
                             ToIntegerOrInfinity(Halves(Len(q.items \o items)) - q.maxSize))]
  ELSE [q EXCEPT !.op = "enqueue", !.items = q.items \o items]

SignalQueue_addToFront(q, items) ==
  IF q.maxSize # NoNumber /\ Halves(Len(items \o q.items)) > q.maxSize
  THEN [q EXCEPT !.op = "addToFront",
                 !.items = Slice(items \o q.items, 0,
                             ToIntegerOrInfinity(0 - (Halves(Len(items \o q.items)) - q.maxSize)))]
  ELSE [q EXCEPT !.op = "addToFront", !.items = items \o q.items]

SignalQueue_clear(q) == [q EXCEPT !.op = "clear", !.items = <<>>]

SignalQueue_setMaxSize(q, size) ==
  IF size = NoNumber \/ Halves(Len(q.items)) <= size
  THEN [q EXCEPT !.op = "setMaxSize", !.maxSize = size]
  ELSE [q EXCEPT !.op = "setMaxSize", !.maxSize = size,
                 !.items = SliceFrom(@, ToIntegerOrInfinity(Halves(Len(@)) - size))]

\* items can be added while the queue is bounded or still short
CanGrow(q, items) == q.maxSize # NoNumber \/ Len(q.items) + Len(items) <= MaxQueue

QueueInit ==
  /\ \E size \in Sizes : heap = <<SignalQueue_new(size)>>
  /\ trk = NoTracker
  /\ made = NoCall

QueueNext ==
  \/ \E item \in Elems : CollectionCall(SignalQueue_removeItem(heap[1], item))
  \/ \E count \in Counts : CollectionCall(SignalQueue_dequeue(heap[1], count))
  \/ \E count \in Counts : CollectionCall(SignalQueue_removeFromBack(heap[1], count))
  \/ \E items \in Lists : CanGrow(heap[1], items) /\ CollectionCall(SignalQueue_enqueue(heap[1], items))
  \/ \E items \in Lists : CanGrow(heap[1], items) /\ CollectionCall(SignalQueue_addToFront(heap[1], items))
  \/ CollectionCall(SignalQueue_clear(heap[1]))
  \/ \E size \in Sizes : CollectionCall(SignalQueue_setMaxSize(heap[1], size))

QueueSpec == QueueInit /\ [][QueueNext]_vars

(* --------------- the two AsyncRequestState classes side by side ---------- *)

\* one source and one caller drive an instance of each class: heap[1] is the
\* class of part_004, heap[2] the class of async-request-state.ts; handlers
\* and reason thunks call nothing back
BothSourceValue(v) ==
  /\ ~heap[1].srcDone /\ heap[1].emits <= MaxLate
  /\ heap' = [o \in DOMAIN heap |-> source_next([Fresh(heap[o]) EXCEPT !.emits = @ + 1], v)]
  /\ UNCHANGED <<trk, made>>

BothSourceError(e) ==
  /\ ~heap[1].srcDone
  /\ heap' = [o \in DOMAIN heap |-> source_error([Fresh(heap[o]) EXCEPT !.srcDone = TRUE], e)]
  /\ UNCHANGED <<trk, made>>

BothSourceComplete ==
  /\ ~heap[1].srcDone
  /\ heap' = [o \in DOMAIN heap |-> source_complete([Fresh(heap[o]) EXCEPT !.srcDone = TRUE])]
  /\ UNCHANGED <<trk, made>>

BothCancel(reason) ==
  /\ reason.script = "noop"
  /\ heap' = [o \in DOMAIN heap |->
                TopCall(Fresh(heap[o]), [op |-> "cancel", reason |-> reason, val |-> Undef, err |-> NoErr])]
  /\ UNCHANGED <<trk, made>>

BothRegister(kind) ==
  /\ UserSubs(heap[1]) < MaxSubs
  /\ heap' = [o \in DOMAIN heap |-> register(Fresh(heap[o]), kind, "noop")]
  /\ UNCHANGED <<trk, made>>

BothInit ==
  /\ heap = <<NewState("Async", Undef, "none", "same"), NewState("AsyncFwd", Undef, "none", "same")>>
  /\ trk = NoTracker
  /\ made = NoCall

BothNext ==
  \/ \E v \in Values : BothSourceValue(v)
  \/ \E e \in {SourceErr, RawThrown} : BothSourceError(e)
  \/ BothSourceComplete
  \/ \E r \in Reasons : BothCancel(r)
  \/ \E k \in SubKinds : BothRegister(k)

BothSpec == BothInit /\ [][BothNext]_vars

(* ------------------------------- properties ----------------------------- *)

\* the one RequestState of Spec
S == heap[1]

\* the variants that make a terminal transition after construction
Driven == {"Writable", "Async", "AsyncFwd"}

\* the outcome a snapshot of the signals shows
Outcome(x) ==
  IF x.result # Undef /\ x.error # NoErr THEN "resolved and rejected"
  ELSE IF x.result # Undef THEN "resolved"
  ELSE IF x.error # NoErr THEN "rejected"
  ELSE IF ~x.loading THEN "completed without value"
  ELSE "pending"

\* a terminal transition has begun or happened
Terminal(x) == x.completed \/ x.result # Undef \/ x.error # NoErr \/ ~x.loading

CancelCalls(s) == {k \in DOMAIN s.calls : s.calls[k].op = "cancel"}

\* every snapshot taken during the last top-level call: by the callbacks that
\* ran in it and around the calls made in it
Observed(s) ==
  {s.calls[k].pre : k \in DOMAIN s.calls} \cup {s.calls[k].post : k \in DOMAIN s.calls}
  \cup UNION {{s.subs[i].got[j].saw : j \in DOMAIN s.subs[i].got} : i \in DOMAIN s.subs}

\* the invocations of the handlers of registration i
Got(s, i) == {s.subs[i].got[j] : j \in DOMAIN s.subs[i].got}

C1_Step ==
  S.variant \in Driven =>
    /\ Outcome(Snap(S)) # "pending" => Outcome(Snap(heap'[1])) = Outcome(Snap(S))
    /\ \A x \in Observed(heap'[1]) :
         Outcome(x) # "pending" => Outcome(x) = Outcome(Snap(heap'[1]))

\* C1: an Async-Source or Externally-Driven state makes at most one terminal
\* transition: an outcome other than pending, once shown by the signals (to a
\* callback, around a call, or between calls), is the outcome shown ever after.
C1_AtMostOneTerminalTransition == [][C1_Step]_vars

\* C2: no Async-Source state (either class) has result and error both defined.
C2_NeverResultAndError ==
  S.variant \in AsyncVariants => ~(S.result # Undef /\ S.error # NoErr)

C3_Step ==
  S.variant \in AsyncVariants =>
    /\ \A k \in CancelCalls(heap'[1]) :
         LET c == heap'[1].calls[k]
         IN /\ c.pre.result # Undef =>
                 ~c.ret /\ c.post.result = c.pre.result /\ c.post.error = NoErr
            /\ c.top /\ ~Terminal(c.pre) =>
                 c.ret /\ c.post.error # NoErr /\ c.post.result = Undef
    /\ S.error # NoErr =>
         heap'[1].result = S.result /\ heap'[1].error = S.error
         /\ heap'[1].loading = S.loading

\* C3: of a resolution and a cancel on an Async-Source state exactly one wins:
\* a cancel called once the value has been delivered returns false and leaves
\* result the value and error undefined; a cancel called from outside on the
\* pending state returns true and rejects it, and nothing the source delivers
\* later changes the rejected state.
C3_ResolutionOrCancelWins == [][C3_Step]_vars

\* C4: a then/catch/finally callback run by a terminal transition reads the
\* snapshots of after the transition: loading false, result the value it was
\* handed, error defined and failed true when it was handed an error.
C4_CallbacksSeeFinalSnapshots ==
  S.variant \in Driven =>
    \A i \in DOMAIN S.subs : \A g \in Got(S, i) :
      S.subs[i].kind \in {"then", "catch", "finally"} /\ g.err.kind # "EmptyError" =>
        /\ ~g.saw.loading
        /\ g.how = "value" => g.saw.result = g.val
        /\ g.how = "error" => g.saw.error # NoErr /\ g.saw.failed

\* C5: on a completed Externally-Driven state every setValue, setError or
\* cancel call is a silent no-op: result, error, failed, loading and cancelled
\* (and the request channel) are after the call what they were before it,
\* cancel returns false, and no handler and no onCancel callback runs.
C5_CompletedWritableIgnoresCalls ==
  S.variant = "Writable" =>
    \A k \in DOMAIN S.calls :
      S.calls[k].pre.completed =>
        S.calls[k].post = S.calls[k].pre /\ ~S.calls[k].ret /\ S.calls[k].ran = 0

\* a setValue call was made from outside on a state that an error had
\* completed, and the state still has no result
C5_Witness_SetValueAfterError ==
  /\ S.variant = "Writable"
  /\ \E k \in DOMAIN S.calls :
       /\ S.calls[k].op = "setValue" /\ S.calls[k].top
       /\ S.calls[k].pre.completed /\ S.calls[k].pre.error # NoErr
       /\ ~S.calls[k].pre.loading /\ S.result = Undef

\* C6: on every variant a cancel called after the terminal transition returns
\* false and leaves result and error as they were.
C6_CancelAfterTerminalReturnsFalse ==
  \A k \in CancelCalls(S) :
    LET c == S.calls[k]
    IN Terminal(c.pre) =>
         ~c.ret /\ c.post.result = c.pre.result /\ c.post.error = c.pre.error

\* C7: on an Async-Source or Externally-Driven state cancel returns true
\* exactly when the state was pending at the call (no call on a terminal state
\* returns true, every call from outside on a pending state does), and a call
\* that returns true has rejected the state: afterwards loading is false,
\* failed is true, and there is no result.
C7_CancelTrueIffItRejected ==
  S.variant \in Driven =>
    \A k \in CancelCalls(S) :
      LET c == S.calls[k]
      IN /\ c.ret => ~Terminal(c.pre)
         /\ c.top /\ ~Terminal(c.pre) => c.ret
         /\ c.ret => ~c.post.loading /\ c.post.failed /\ c.post.result = Undef

\* C8: a cancel without a reason on a pending Async-Source or Externally-Driven
\* state leaves a cancellation-kind error in the error snapshot and hands one
\* to the then/catch/finally handlers.
C8_DefaultReasonIsCancellation ==
  S.variant \in Driven =>
    \A k \in CancelCalls(S) :
      LET c == S.calls[k]
      IN c.omitted /\ c.top /\ c.ret /\ ~Terminal(c.pre) /\ Len(S.calls) = 1 =>
           /\ c.post.error.kind = "CancelledError"
           /\ \A i \in DOMAIN S.subs : \A g \in Got(S, i) :
                g.how = "error" => g.err.kind = "CancelledError"

\* C9: the handlers of one then registration run at most once in total.
C9_ThenFiresAtMostOnce ==
  \A i \in DOMAIN S.subs : S.subs[i].kind = "then" => Len(S.subs[i].got) <= 1

\* C10: a tracker, untyped or typed, however it was constructed and whatever
\* set and reset calls followed, exists and reads the loading, error and failed
\* of the state its current returns.
C10_TrackerReadsFollowCurrent ==
  trk.status # "absent" =>
    /\ trk.status = "live"
    /\ tracker_loading(heap, trk) = heap[tracker_current(trk)].loading
    /\ tracker_error(heap, trk) = heap[tracker_current(trk)].error
    /\ tracker_failed(heap, trk) = Failed(heap[tracker_current(trk)])

\* C11: once set has been called on a tracker, current is the state last set
\* and loading, error and failed read that state's signals, whatever happens
\* to the state set before it and whatever happens to the state last set.
C11_TrackerReadsFollowLastSet ==
  trk.status = "live" /\ trk.last # 0 =>
    /\ tracker_current(trk) = trk.last
    /\ tracker_loading(heap, trk) = heap[trk.last].loading
    /\ tracker_error(heap, trk) = heap[trk.last].error
    /\ tracker_failed(heap, trk) = Failed(heap[trk.last])

\* set(stateA) was followed by set(stateB); stateA has been rejected and
\* stateB is still pending, and the tracker reads pending
C11_Witness_FirstRejectedSecondPending ==
  /\ trk.status = "live" /\ trk.prev # 0 /\ trk.last # 0 /\ trk.prev # trk.last
  /\ ~heap[trk.prev].loading /\ heap[trk.prev].error # NoErr
  /\ heap[trk.last].loading /\ heap[trk.last].error = NoErr
  /\ tracker_loading(heap, trk) /\ ~tracker_failed(heap, trk)

\* C12: constructing a tracker without an initial state, and reset on any
\* tracker, raise no error and leave a tracker whose current is an Empty state
\* and whose loading, error and failed read false, undefined and false.
C12_EmptyTrackerAndReset ==
  (trk.op = "new" /\ trk.initial = 0) \/ trk.op = "reset" =>
    /\ ~trk.threw
    /\ trk.status = "live"
    /\ heap[tracker_current(trk)].variant = "Empty"
    /\ ~tracker_loading(heap, trk)
    /\ tracker_error(heap, trk) = NoErr
    /\ ~tracker_failed(heap, trk)

\* C13: each named alternate of the exported requestState (error, loading,
\* empty, writable) can be called, and the call constructs the Error variant,
\* the Perpetual-Pending variant (an Async-Source when a duration is given),
\* the Empty variant and the Externally-Driven variant respectively.
C13_AlternatesConstruct ==
  made.member \in Alternates =>
    /\ ~made.threw
    /\ made.id \in DOMAIN heap
    /\ heap[made.id].variant =
         CASE made.member = "error" -> "Error"
           [] made.member = "empty" -> "Empty"
           [] made.member = "writable" -> "Writable"
           [] made.with = "none" -> "Loading"
           [] OTHER -> "AsyncFwd"

\* C14: an Error state has called its error factory exactly once, whatever
\* handlers were registered, and every error a then/catch/finally handler was
\* handed is the instance the error snapshot holds.
C14_ErrorFactoryCalledOnce ==
  S.variant = "Error" =>
    /\ S.factoryCalls = 1
    /\ \A i \in DOMAIN S.subs : \A g \in Got(S, i) :
         S.subs[i].kind \in {"then", "catch", "finally"} /\ g.how = "error" =>
           g.err = S.error

\* the terminal transition of a state has happened: its latch is set, its
\* request channel has terminated, or a result or an error is there
TransitionDone(s) ==
  s.completed \/ s.req.stopped \/ s.result # Undef \/ s.error # NoErr

\* C15: between operations, an Async-Source, Externally-Driven or
\* Perpetual-Pending state has loading true exactly as long as its terminal
\* transition has not happened, and an Immediate, Error or Empty state has
\* loading false.
C15_LoadingUntilTerminal ==
  IF S.variant \in {"Static", "Error", "Empty"} THEN ~S.loading
  ELSE S.loading <=> ~TransitionDone(S)

\* an Async-Source state has been resolved, and one that made no transition
\* is still loading
C15_Witness_ResolvedNotLoading ==
  S.variant \in AsyncVariants /\ S.result # Undef /\ S.req.stopped /\ ~S.loading

\* the then registrations of s
Thens(s) == {i \in DOMAIN s.subs : s.subs[i].kind = "then"}

C16_BeforeAndAfter ==
  /\ S.emits = 0 => S.loading /\ S.result = Undef /\ \A i \in Thens(S) : S.subs[i].got = <<>>
  /\ S.emits >= 1 =>
       /\ ~S.loading /\ S.result # Undef
       /\ \A i \in Thens(S) :
            /\ Len(S.subs[i].got) = 1
            /\ S.subs[i].got[1].how = "value"
            /\ S.subs[i].got[1].val = S.result

\* C16: an Async-Source whose source eventually delivers a value v and which
\* is never cancelled is loading with no result before the delivery;
\* eventually it is not loading with result v, and stays so; and every then
\* callback received nothing before the delivery and v exactly once after it.
C16_ResolvesEventually ==
  /\ []C16_BeforeAndAfter
  /\ <>[](~S.loading /\ S.result # Undef)
  /\ [][S.result # Undef => heap'[1].result = S.result /\ ~heap'[1].loading]_vars

\* the value was delivered to a then callback that had been attached while
\* the state was pending (it ran during the delivery), and later events of
\* the source have been dropped
C16_Witness_ThenGotValueOnce ==
  /\ S.variant \in AsyncVariants /\ S.emits >= 2 /\ ~S.loading /\ S.result # Undef
  /\ \E i \in Thens(S) :
       /\ Len(S.subs[i].got) = 1
       /\ S.subs[i].got[1].val = S.result
       /\ S.subs[i].got[1].saw.loading

\* the error snapshot is the normalized form of the error the request channel raised
Normalized(s) ==
  IF IsErrorInstance(s.req.thrown) THEN s.error = s.req.thrown
  ELSE s.error # NoErr /\ s.error.kind = "UnknownError"

Rejected(s) ==
  /\ ~s.loading /\ Failed(s) /\ Normalized(s)
  /\ s.result = Undef
  /\ s.res.stopped /\ s.res.buffer = <<>>
  /\ s.req.hasError

CompletedWithoutValue(x) ==
  /\ x.stopped /\ x.emitted = 0
  /\ ~x.loading /\ x.error = NoErr /\ ~x.failed /\ x.result = Undef

\* C18: when the source of an Async-Source completes without having emitted,
\* the state is completed-without-value (loading false, error undefined,
\* failed false, result undefined), and a cancel called on that outcome
\* returns false.
C18_CompletedWithoutValueIsTerminal ==
  S.variant \in AsyncVariants =>
    /\ S.req.stopped /\ ~S.req.hasError /\ S.req.buffer = <<>> => CompletedWithoutValue(Snap(S))
    /\ \A k \in CancelCalls(S) :
         CompletedWithoutValue(S.calls[k].pre) =>
           ~S.calls[k].ret /\ CompletedWithoutValue(S.calls[k].post)

\* the last call made from outside on the state, if it was `op` on a pending state
LastTop(s, op) ==
  /\ s.calls # <<>>
  /\ s.calls[Len(s.calls)].top /\ s.calls[Len(s.calls)].op = op
  /\ ~Terminal(s.calls[Len(s.calls)].pre)

\* C19: after setValue(v) on a pending Externally-Driven state result is v,
\* loading is false, the request channel has emitted v and completed, and the
\* result channel has emitted v and completed.
C19_SetValueReachesBothChannels ==
  S.variant = "Writable" /\ LastTop(S, "setValue") =>
    /\ S.result # Undef /\ ~S.loading
    /\ S.req.buffer = <<S.result>> /\ S.req.stopped /\ ~S.req.hasError
    /\ S.res.buffer = <<S.result>> /\ S.res.stopped

\* C20: after setError(e) on a pending Externally-Driven state error is the
\* normalized e, failed is true, loading is false, result is undefined, the
\* request channel has raised the error and the result channel has completed
\* without emitting.
C20_SetErrorRejects ==
  S.variant = "Writable" /\ LastTop(S, "setError") => Rejected(S)

\* setError was called with a value that is not an Error while a catch handler
\* was registered, and the state shows the normalized error
C20_Witness_RawErrorNormalized ==
  /\ S.variant = "Writable" /\ LastTop(S, "setError")
  /\ S.req.thrown = RawThrown /\ S.error.kind = "UnknownError"
  /\ S.res.stopped /\ S.res.buffer = <<>> /\ ~S.loading
  /\ \E i \in DOMAIN S.subs : S.subs[i].kind = "catch" /\ Len(S.subs[i].got) = 1

\* C21: on an Externally-Driven state with a cancellation callback, whatever
\* setValue, setError and cancel calls were made (from outside, from handlers,
\* from the cancellation callback or from a reason thunk), the cancellation
\* callback has run exactly once if some cancel call succeeded and never
\* otherwise.
C21_OnCancelExactlyOnce ==
  S.variant = "Writable" /\ S.onCancel # "none" =>
    /\ S.onCancelCalls = IF S.cancelled THEN 1 ELSE 0
    /\ (\E k \in CancelCalls(S) : S.calls[k].ret) => S.cancelled

\* C22: on an Externally-Driven state cancelled is true exactly when a cancel
\* call has returned true, failed is then true too, the cancelled channel has
\* then emitted exactly once and completed, and otherwise (pending, or
\* completed by setValue or setError) cancelled is false and the cancelled
\* channel has emitted nothing.
C22_CancelledFlagAndChannel ==
  S.variant = "Writable" =>
    /\ (\E k \in CancelCalls(S) : S.calls[k].ret) => S.cancelled
    /\ (S.calls # <<>> /\ \A k \in DOMAIN S.calls : ~S.calls[k].ret) =>
         S.cancelled = S.calls[1].pre.cancelled
    /\ S.cancelled => Failed(S) /\ S.cancelledCh.buffer = <<TRUE>> /\ S.cancelledCh.stopped
    /\ ~S.cancelled => S.cancelledCh.buffer = <<>> /\ ~S.cancelledCh.stopped

\* what the handlers of registration i were handed: which handler ran, the
\* value, and the kind of error (not which Error object)
Handed(s, i) ==
  [j \in DOMAIN s.subs[i].got |->
     [how |-> s.subs[i].got[j].how, val |-> s.subs[i].got[j].val,
      err |-> s.subs[i].got[j].err.kind]]

HandlerKinds == {"then", "catch", "finally"}

\* C23: on an Async-Source or Externally-Driven state whose request channel
\* has terminated, any two registrations of the same kind (then, catch or
\* finally), whether made before or after the terminal transition, were handed
\* the same value or the same error, each at most once.
C23_EarlyAndLateSeeSameOutcome ==
  S.variant \in Driven /\ S.req.stopped =>
    \A i, j \in DOMAIN S.subs :
      S.subs[i].kind \in HandlerKinds /\ S.subs[j].kind = S.subs[i].kind =>
        Handed(S, i) = Handed(S, j) /\ Len(S.subs[i].got) <= 1

\* the registrations of one kind
Registered(s, kind) == {i \in DOMAIN s.subs : s.subs[i].kind = kind}

\* C24: a catch handler registered on any Result-State has run exactly once
\* if the state is rejected, and never if the state has a result, has
\* completed without a value or is pending.
C24_CatchOnceIffRejected ==
  \A i \in Registered(S, "catch") :
    /\ S.result = Undef /\ Failed(S) => Len(S.subs[i].got) = 1
    /\ S.result # Undef \/ ~Failed(S) => Len(S.subs[i].got) = 0

\* C25: a finally handler registered on any Result-State has not run while the
\* state is pending and has run exactly once when the state is in a terminal
\* outcome: handed an error of the kind in the error snapshot when the state is
\* rejected, and no error when the state has a result.
C25_FinallyOncePerRegistration ==
  \A i \in Registered(S, "finally") :
    /\ Outcome(Snap(S)) = "pending" => Len(S.subs[i].got) = 0
    /\ Outcome(Snap(S)) # "pending" => Len(S.subs[i].got) = 1
    /\ Failed(S) /\ Len(S.subs[i].got) = 1 =>
         S.subs[i].got[1].how = "error" /\ S.subs[i].got[1].err.kind = S.error.kind
    /\ S.result # Undef /\ Len(S.subs[i].got) = 1 =>
         S.subs[i].got[1].how = "complete" /\ S.subs[i].got[1].err = NoErr

C26_Step ==
  S.variant = "Loading" =>
    /\ S.loading /\ CancelCalls(heap'[1]) = {} => heap'[1].loading /\ ~heap'[1].req.stopped
    /\ \A k \in CancelCalls(heap'[1]) :
         LET c == heap'[1].calls[k]
         IN /\ ~c.ret
            /\ c.post.stopped /\ c.post.emitted = 0 /\ ~c.post.loading
            /\ c.post.result = Undef /\ c.post.error = NoErr /\ ~c.post.failed
    /\ heap'[1].result = Undef /\ heap'[1].error = NoErr /\ ~heap'[1].req.hasError

\* C26: a Perpetual-Pending state keeps loading true through every operation
\* that makes no cancel call; a cancel completes its channel without a value
\* and leaves loading false with result and error undefined; every cancel call
\* on it returns false.
C26_LoadingUntilCancelled == [][C26_Step]_vars

\* a cancelled loading state: the cancel returned false, a finally handler
\* registered while it was loading ran on the completion
C26_Witness_CancelledLoading ==
  /\ S.variant = "Loading" /\ ~S.loading /\ S.req.stopped
  /\ \E k \in CancelCalls(S) : S.calls[k].top /\ S.calls[k].pre.loading /\ ~S.calls[k].ret
  /\ \E i \in Registered(S, "finally") : Len(S.subs[i].got) = 1 /\ S.subs[i].got[1].saw.loading

\* C27: an Immediate state built from v has result v, loading false, error
\* undefined and failed false in every state, every cancel on it returns
\* false, and every then registration has had its value callback called with
\* v by the time then has returned.
C27_StaticIsImmediate ==
  S.variant = "Static" =>
    /\ S.result = S.value /\ S.value \in Values
    /\ ~S.loading /\ S.error = NoErr /\ ~Failed(S)
    /\ \A k \in CancelCalls(S) : ~S.calls[k].ret
    /\ \A i \in Registered(S, "then") :
         /\ Len(S.subs[i].got) = 1
         /\ S.subs[i].got[1].how = "value" /\ S.subs[i].got[1].val = S.value

\* a then handler on a static state was called with the value and called
\* cancel, which returned false
C27_Witness_ThenRanAndCancelled ==
  /\ S.variant = "Static"
  /\ \E i \in Registered(S, "then") :
       S.subs[i].script = "cancel" /\ Len(S.subs[i].got) = 1 /\ S.subs[i].got[1].val = S.value
  /\ \E k \in CancelCalls(S) : ~S.calls[k].ret

\* C28: an Error-variant state built from a factory has failed true, error the
\* error the factory returned at construction, loading false and result
\* undefined in every state, whatever cancel, then, catch, finally and
\* subscribe calls were made, and every cancel on it returns false.
C28_ErrorStateIsConstant ==
  S.variant = "Error" =>
    /\ Failed(S) /\ S.error = [kind |-> "FactoryError", inst |-> 1]
    /\ ~S.loading /\ S.result = Undef
    /\ \A k \in CancelCalls(S) : ~S.calls[k].ret

\* an Error-variant state after a catch handler was handed an error and
\* called cancel
C28_Witness_CaughtAndCancelled ==
  /\ S.variant = "Error"
  /\ \E i \in Registered(S, "catch") : S.subs[i].script = "cancel" /\ Len(S.subs[i].got) = 1
  /\ \E k \in CancelCalls(S) : ~S.calls[k].ret

\* C29: an Empty state has loading false, result undefined, error undefined
\* and failed false in every state, and every subscribe on it has completed
\* by the time it returns, with no value and no error handed to the observer.
C29_EmptyCompletesAtOnce ==
  S.variant = "Empty" =>
    /\ ~S.loading /\ S.result = Undef /\ S.error = NoErr /\ ~Failed(S)
    /\ \A i \in Registered(S, "subscribe") :
         /\ S.subs[i].closed /\ Len(S.subs[i].got) = 1
         /\ S.subs[i].got[1].how = "complete"
         /\ S.subs[i].got[1].val = Undef /\ S.subs[i].got[1].err = NoErr

\* two observers subscribed to an Empty state, each completed once
C29_Witness_TwoSubscribersCompleted ==
  /\ S.variant = "Empty"
  /\ Cardinality(Registered(S, "subscribe")) = 2
  /\ \A i \in Registered(S, "subscribe") : Len(S.subs[i].got) = 1 /\ S.subs[i].closed

\* C30: requestState(data) returns an Async-Source state for a promise or a
\* push stream, loading until its source has delivered (or it was cancelled),
\* and an Immediate state with loading false and result = data for any other
\* data.
C30_EntryPointSelectsVariant ==
  made.member = "call" =>
    /\ ~made.threw /\ made.id \in DOMAIN heap
    /\ isObservable(made.with) \/ isPromise(made.with) =>
         /\ heap[made.id].variant \in AsyncVariants
         /\ ~TransitionDone(heap[made.id]) => heap[made.id].loading
         /\ heap[made.id].emits > 0 => ~heap[made.id].loading
    /\ made.with \in PlainInputs =>
         /\ heap[made.id].variant = "Static"
         /\ ~heap[made.id].loading
         /\ heap[made.id].result = DataValue(made.with)

\* a state made from a promise whose value has arrived, next to a state made
\* earlier from a plain value
C30_Witness_PromiseResolved ==
  /\ made.member = "call" /\ made.with = "promise" /\ made.id = 2
  /\ heap[2].emits = 1 /\ ~heap[2].loading /\ heap[2].result # Undef
  /\ heap[1].variant = "Static" /\ heap[1].result = 2

\* C31: SignalSet.set(values) leaves the collection equal to the set of the
\* values and returns true exactly when the contents changed, for every prior
\* content and every list, lists as long as the current size included.
C31_SetResetsToValues ==
  heap[1].class = "SignalSet" /\ heap[1].op = "set" =>
    /\ heap[1].set = SetOf(heap[1].arg)
    /\ heap[1].ret = Returned(heap[1].set # heap[1].pre)

\* C32: on every variant the onError handler passed to then (through which
\* asPromise rejects) has been invoked only if the state is rejected, error
\* defined and failed true; on an Empty state, a cancelled Perpetual-Pending
\* state and an Async-Source that completed without a value it has not been
\* invoked.
C32_ThenErrorOnlyWhenRejected ==
  \A i \in Registered(S, "then") : \A g \in Got(S, i) :
    g.how = "error" => Failed(S) /\ S.error # NoErr

\* a step in which the source of the state emitted, failed or completed
SourceStep == heap'[1].emits # S.emits \/ heap'[1].srcDone # S.srcDone

C33_Step ==
  S.variant \in AsyncVariants /\ SourceStep =>
    /\ S.emits = 0 /\ heap'[1].emits = 1 /\ ~TransitionDone(S) /\ CancelCalls(heap'[1]) = {} =>
         /\ heap'[1].result # Undef /\ ~heap'[1].loading /\ heap'[1].error = NoErr
         /\ heap'[1].req.buffer = <<heap'[1].result>>
         /\ heap'[1].req.stopped /\ ~heap'[1].req.hasError
         /\ heap'[1].res.buffer = <<heap'[1].result>> /\ heap'[1].res.stopped
    /\ S.emits >= 1 =>
         /\ heap'[1].result = S.result /\ heap'[1].error = S.error
         /\ heap'[1].loading = S.loading
         /\ heap'[1].req = S.req /\ heap'[1].res = S.res

\* C33: an Async-Source over a push stream takes the first value only: the
\* first emission (no handler cancelling) makes result that value and makes
\* the request and result channels emit it once and complete; emissions,
\* errors and completion of the stream after the first emission change neither
\* result, error, loading nor the channels.
C33_OnlyFirstValueTaken == [][C33_Step]_vars

\* the stream has emitted twice and then failed; the state holds the first
\* value and both channels hold it once
C33_Witness_LaterEmissionsIgnored ==
  /\ S.variant \in AsyncVariants /\ S.emits = 2 /\ S.srcDone
  /\ S.result # Undef /\ S.error = NoErr /\ ~S.loading
  /\ S.req.buffer = <<S.result>> /\ S.res.buffer = <<S.result>>

\* the cancel return values of the last step
Returns(s) == [k \in DOMAIN s.calls |-> s.calls[k].ret]

\* C34: driven by the same source events and the same cancel calls, none of
\* them made during a callback delivery, the two AsyncRequestState classes end
\* every step with the same result, loading, error and failed snapshots and
\* have returned the same values from cancel.
C34_AsyncClassesAgree ==
  /\ heap[1].result = heap[2].result
  /\ heap[1].loading = heap[2].loading
  /\ heap[1].error.kind = heap[2].error.kind
  /\ Failed(heap[1]) = Failed(heap[2])
  /\ Returns(heap[1]) = Returns(heap[2])

\* both classes were cancelled after the source's value had arrived: both
\* cancels returned false and both states hold the value
C34_Witness_CancelAfterValue ==
  /\ heap[1].variant = "Async" /\ heap[2].variant = "AsyncFwd"
  /\ heap[1].result # Undef /\ heap[2].result # Undef
  /\ Returns(heap[1]) = <<FALSE>> /\ Returns(heap[2]) = <<FALSE>>

C35_Step ==
  trk.status = "live" /\ trk' # trk =>
    \A o \in DOMAIN heap : o \in DOMAIN heap' /\ heap'[o] = heap[o]

\* C35: set and reset on a tracker leave every Result-State as it was, the
\* one held before and the one held after included: nothing is cancelled and
\* no result, loading, error or failed changes.
C35_TrackerOnlyAliases == [][C35_Step]_vars

\* a pending state was swapped out of the tracker for another pending state
\* and both are still pending and uncancelled
C35_Witness_SwappedOutStillPending ==
  /\ trk.status = "live" /\ trk.op = "set" /\ trk.prev # 0 /\ trk.last # trk.prev
  /\ heap[trk.prev].variant = "Writable" /\ heap[trk.prev].loading /\ ~heap[trk.prev].cancelled
  /\ heap[trk.last].variant = "Async" /\ heap[trk.last].loading
  /\ heap[trk.prev].calls = <<>> /\ heap[trk.last].calls = <<>>

\* C36: a SignalQueue whose max size is a number n >= 0 holds at most n items
\* after any sequence of enqueue, addToFront, dequeue, removeFromBack,
\* removeItem, clear and setMaxSize calls.
C36_LengthWithinMaxSize ==
  heap[1].class = "SignalQueue" /\ heap[1].maxSize # NoNumber =>
    Halves(Len(heap[1].items)) <= heap[1].maxSize

====
